---- MODULE Spec2Model ----
(***************************************************************************)
(* A model of the PDF-to-video pipeline: the driver generate_summary_video *)
(* (video_generator.py), the compositor combine_video_with_audio_sync, the *)
(* assembler stitch_videos and the closing-clip generator (veo_gen.py).    *)
(*                                                                         *)
(* One run of the driver is one behaviour.  External collaborators (the    *)
(* language-model API, the renderer, the voice service, the media library, *)
(* the generative-video API, the manim subprocess) are inputs: each call   *)
(* draws its outcome with \E from the outcomes the call can have.          *)
(*                                                                         *)
(* Durations are integers in hundredths of a second (0.1 s = 10).          *)
(* Paths are records [kind, idx]; idx is the 1-based position of the clip  *)
(* (the code's f"final_{i}.mp4" uses the 0-based i = idx - 1).             *)
(***************************************************************************)
EXTENDS Integers, Sequences, FiniteSets, TLC

VARIABLES
    pc,               \* position of the run in the code
    config_text,      \* response.content[0].text, as a sequence of tokens
    embedded,         \* the JSON object literal the token "OBJ" stands for
    config,           \* the parsed config (dict)
    clips,            \* driver: clips (after truncation)
    video_paths,      \* driver: what generate_manim_clips returned
    i,                \* driver: loop position over zip(clips, video_paths)
    final_clips,      \* driver: paths handed to stitch_videos
    successful_clips, \* driver counter
    failed_clips,     \* driver counter
    ev,               \* what the last step did to which clip (observation)
    comb,             \* the last combine_video_with_audio_sync call (observation)
    fs,               \* the video files under clips/ and the temporary source
                      \* file, oldest first: <<[path, origin]>>
    stitch_clips,     \* stitch_videos: clips (loaded, normalized)
    j,                \* stitch_videos: loop position over video_paths
    missing,          \* stitch_videos: paths os.path.exists found absent
    api_key,          \* GOOGLE_API_KEY as read by generate_veo_thank_you_clip
    primary_calls,    \* calls of generate_veo_gemini_thank_you_clip
    fallback_calls,   \* calls of create_fallback_thank_you_clip
    api_called,       \* whether the generative-video API has been called
    operation,        \* the Veo operation handle: [done, videos]
    elapsed,          \* time.time() - start_time, while the polling loop runs
    n,                \* Primary: position in operation.response.generated_videos
    temp_file,        \* Fallback: the temporary source file
    fallback_path,    \* Fallback: the video picked after the render
    veo_clip_path,    \* what generate_veo_thank_you_clip returned
    closing,          \* what stitch_videos did with the closing clip
    written,          \* origins of the clips written to summary_video.mp4
    result,           \* the summary the run returned
    error             \* the error the run raised

vars == <<pc, config_text, embedded, config, clips, video_paths, i, final_clips,
          successful_clips, failed_clips, ev, comb, fs, stitch_clips, j, missing,
          api_key, primary_calls, fallback_calls, api_called, operation, elapsed,
          n, temp_file, fallback_path, veo_clip_path, closing, written, result,
          error>>

(***************************************************************************)
(* Bounds of the model.                                                    *)
(***************************************************************************)
MaxConfigClips == 5   \* clips in a config the model generates
MaxTextLen == 3       \* tokens in a model response
MaxVideos == 2        \* generated_videos in a Veo response

(***************************************************************************)
(* Constants of the program.                                               *)
(***************************************************************************)
MaxClips == 4         \* min(len(clips), 4)
GuardMargin == 10     \* extra_duration + 0.1
FrameBack == 1        \* video.duration - 0.01
MaxWaitTime == 300    \* max_wait_time
PollInterval == 15    \* time.sleep(15)

Min(a, b) == IF a < b THEN a ELSE b

Range(s) == {s[k] : k \in 1..Len(s)}

(***************************************************************************)
(* Paths and files.                                                        *)
(***************************************************************************)
None == [kind |-> "none", idx |-> 0]
VideoPath(k) == [kind |-> "video", idx |-> k]       \* the renderer's output for clip k
FinalPath(k) == [kind |-> "final", idx |-> k]       \* clips/final_{k-1}.mp4
ThankYouPath == [kind |-> "thank_you", idx |-> 0]   \* clips/thank_you_veo.mp4
FallbackRenderPath == [kind |-> "fallback_render", idx |-> 0] \* manim's SimpleScene.mp4
TempPath == [kind |-> "tmp", idx |-> 0]             \* the NamedTemporaryFile
SummaryPath == [kind |-> "summary", idx |-> 0]      \* summary_video.mp4
VeoOrigin == [kind |-> "veo", idx |-> 0]            \* a downloaded Veo video
EmptyOrigin == [kind |-> "empty", idx |-> 0]        \* a zero-byte file
OldPath == [kind |-> "old", idx |-> 0]              \* an .mp4 left in clips/ before the run
StaleOrigin == [kind |-> "stale", idx |-> 0]        \* the video of an earlier run

File(p, o) == [path |-> p, origin |-> o]

\* os.path.exists
Exists(files, p) == \E k \in 1..Len(files) : files[k].path = p

\* os.unlink, and the disappearance of a file
Remove(files, p) == SelectSeq(files, LAMBDA f : f.path # p)

\* a file written at p (created, or replaced): it is now the newest
WriteFile(files, p, o) == Append(Remove(files, p), File(p, o))

OriginOf(files, p) == (CHOOSE f \in Range(files) : f.path = p).origin

(***************************************************************************)
(* The model response and its parsing.                                     *)
(* A response is a sequence of tokens joined by blanks:                    *)
(*   "LB"  the text {        "RB"  the text }                              *)
(*   "W"   prose without braces (not JSON)                                 *)
(*   "OBJ" the JSON text of the object `embedded`, {"clips": [...]}        *)
(***************************************************************************)
Tokens == {"LB", "RB", "W", "OBJ"}

Clip(k, vo) == [id |-> k, voice_over |-> vo]

\* voice_over is TRUE for a non-empty narration text
ClipLists ==
    UNION {{[p \in 1..k |-> Clip(p, f[p])] : f \in [1..k -> BOOLEAN]} :
           k \in 0..MaxConfigClips}

Object(cs) == [has_clips |-> TRUE, clips |-> cs]
EmptyObject == [has_clips |-> FALSE, clips |-> <<>>]  \* the dict {}
NoConfig == [has_clips |-> FALSE, clips |-> <<>>]

Texts == UNION {[1..k -> Tokens] : k \in 0..MaxTextLen}

HasObj(t) == \E k \in 1..Len(t) : t[k] = "OBJ"

\* json.loads accepts the text: one object literal, or the two braces of {}
IsJson(t) == t = <<"OBJ">> \/ t = <<"LB", "RB">>

JsonLoads(t, emb) == IF t = <<"OBJ">> THEN emb ELSE EmptyObject

Opens(t) == {k \in 1..Len(t) : t[k] \in {"LB", "OBJ"}}
Closes(t) == {k \in 1..Len(t) : t[k] \in {"RB", "OBJ"}}
SetMin(S) == CHOOSE x \in S : \A y \in S : x <= y
SetMax(S) == CHOOSE x \in S : \A y \in S : y <= x

\* re.search(r'\{.*\}', text, re.DOTALL): from the first { that has a } after
\* it, greedily to the last }.  <<>> stands for no match.
RegexSearch(t) ==
    IF Opens(t) = {} \/ Closes(t) = {} THEN <<>>
    ELSE IF SetMax(Closes(t)) < SetMin(Opens(t)) THEN <<>>
    ELSE SubSeq(t, SetMin(Opens(t)), SetMax(Closes(t)))

ParseConfigText(t, emb) ==
    IF IsJson(t) THEN [status |-> "ok", via |-> "direct", config |-> JsonLoads(t, emb)]
    ELSE IF RegexSearch(t) # <<>>
         THEN IF IsJson(RegexSearch(t))
              THEN [status |-> "ok", via |-> "regex",
                    config |-> JsonLoads(RegexSearch(t), emb)]
              ELSE [status |-> "JSONDecodeError", via |-> "regex", config |-> NoConfig]
         ELSE [status |-> "Could not parse video configuration", via |-> "no_match",
               config |-> NoConfig]

\* config.get("clips", [])
GetClips(c) == IF c.has_clips THEN c.clips ELSE <<>>

\* a truncation that keeps the last clips instead of the first
TruncateClipsLast(cs) == SubSeq(cs, Len(cs) - Min(Len(cs), MaxClips) + 1, Len(cs))

\* clips[:min(len(clips), 4)]
TruncateClips(cs) == SubSeq(cs, 1, Min(Len(cs), MaxClips))

(***************************************************************************)
(* combine_video_with_audio_sync.                                          *)
(* `fail` names the call that raises, "none" when none does:               *)
(*   "video_open"  VideoFileClip(video_path)                               *)
(*   "audio_open"  AudioFileClip(audio_path)                               *)
(*   "extend"      video.get_frame / ImageClip                             *)
(*   "extend_concat"  concatenate_videoclips([video, still_clip])           *)
(*   "write"       final_video.write_videofile                             *)
(***************************************************************************)
VideoDurations == {100, 200}
AudioDurations == {100, 150, 250}

FailPoints(vdur, adur) ==
    {"none", "video_open", "audio_open", "write"} \cup
    (IF adur > vdur THEN {"extend", "extend_concat"} ELSE {})

NoComb ==
    [called |-> FALSE, video_path |-> None, output_path |-> None, vdur |-> 0,
     adur |-> 0, fail |-> "none", frame_at |-> 0, still |-> 0, outdur |-> 0,
     audio_kept |-> 0, opened |-> {}, closed |-> {}, result |-> None]

\* the media handles the call has opened when `fail` raises (or when it ends)
Opened(vdur, adur, fail) ==
    CASE fail = "video_open" -> {}
      [] fail = "audio_open" -> {"video"}
      [] fail = "extend" -> {"video", "audio"}
      [] fail = "extend_concat" -> {"video", "audio", "still_clip"}
      [] OTHER -> IF adur > vdur
                  THEN {"video", "audio", "still_clip", "extended_video", "final_video"}
                  ELSE {"video", "audio", "final_video"}

\* video.close(); audio.close(); final_video.close(); extended_video.close()
Closed(vdur, adur, fail) ==
    IF fail # "none" THEN {}
    ELSE IF adur > vdur THEN {"video", "audio", "final_video", "extended_video"}
    ELSE {"video", "audio", "final_video"}

\* a still clip without the guard margin
StillDurationNoMargin(vdur, adur) ==
    IF adur > vdur THEN adur - vdur ELSE 0

\* the duration of the still clip, 0 when the video is not extended
StillDuration(vdur, adur) ==
    IF adur > vdur THEN (adur - vdur) + GuardMargin ELSE 0

\* a compositor that returns the output path whether or not it was written
CombineNoFallback(video_path, output_path, vdur, adur, fail) ==
    [called |-> TRUE, video_path |-> video_path, output_path |-> output_path,
     vdur |-> vdur, adur |-> adur, fail |-> fail,
     frame_at |-> IF adur > vdur /\ fail \in {"none", "write", "extend", "extend_concat"}
                  THEN vdur - FrameBack ELSE 0,
     still |-> IF fail \in {"none", "write", "extend_concat"} THEN StillDuration(vdur, adur) ELSE 0,
     outdur |-> IF fail = "none" THEN vdur + StillDuration(vdur, adur) ELSE 0,
     audio_kept |-> IF fail = "none" THEN adur ELSE 0,
     opened |-> Opened(vdur, adur, fail),
     closed |-> Closed(vdur, adur, fail),
     result |-> output_path]

Combine(video_path, output_path, vdur, adur, fail) ==
    [called |-> TRUE, video_path |-> video_path, output_path |-> output_path,
     vdur |-> vdur, adur |-> adur, fail |-> fail,
     frame_at |-> IF adur > vdur /\ fail \in {"none", "write", "extend", "extend_concat"}
                  THEN vdur - FrameBack ELSE 0,
     still |-> IF fail \in {"none", "write", "extend_concat"} THEN StillDuration(vdur, adur) ELSE 0,
     outdur |-> IF fail = "none" THEN vdur + StillDuration(vdur, adur) ELSE 0,
     audio_kept |-> IF fail = "none" THEN adur ELSE 0,
     opened |-> Opened(vdur, adur, fail),
     closed |-> Closed(vdur, adur, fail),
     result |-> IF fail = "none" THEN output_path ELSE video_path]

(***************************************************************************)
(* The driver, generate_summary_video.  generate_summary_video_upload has  *)
(* the same body (it differs in use_base64 and in the key pdf_path).       *)
(***************************************************************************)
NoEv == [kind |-> "none", clip |-> 0, path |-> None]
Ev(kind, clip, path) == [kind |-> kind, clip |-> clip, path |-> path]

NoOperation == [done |-> FALSE, videos |-> 0]
NoResult == [returned |-> FALSE, video_path |-> None, total_clips |-> 0,
             successful_clips |-> 0, failed_clips |-> 0]

\* os.makedirs(output_dir, exist_ok=True): clips/ is kept as an earlier run
\* left it, here with or without another .mp4 and an earlier closing clip
StartDirs ==
    {<<>>,
     <<File(OldPath, StaleOrigin)>>,
     <<File(ThankYouPath, StaleOrigin)>>,
     <<File(OldPath, StaleOrigin), File(ThankYouPath, StaleOrigin)>>}

Init ==
    /\ pc = "config"
    /\ config_text = <<>>
    /\ embedded = NoConfig
    /\ config = NoConfig
    /\ clips = <<>>
    /\ video_paths = <<>>
    /\ i = 0
    /\ final_clips = <<>>
    /\ successful_clips = 0
    /\ failed_clips = 0
    /\ ev = NoEv
    /\ comb = NoComb
    /\ fs \in StartDirs
    /\ stitch_clips = <<>>
    /\ j = 0
    /\ missing = {}
    /\ api_key = "unread"
    /\ primary_calls = 0
    /\ fallback_calls = 0
    /\ api_called = FALSE
    /\ operation = NoOperation
    /\ elapsed = 0
    /\ n = 0
    /\ temp_file = "none"
    /\ fallback_path = None
    /\ veo_clip_path = None
    /\ closing = "none"
    /\ written = <<>>
    /\ result = NoResult
    /\ error = "none"

driverVars == <<clips, video_paths, i, final_clips, successful_clips, failed_clips>>
stitchVars == <<stitch_clips, j, missing, closing, written>>
veoVars == <<api_key, primary_calls, fallback_calls, api_called, operation, elapsed,
             n, temp_file, fallback_path, veo_clip_path>>

\* an uncaught exception leaves the run
Raise(msg) == pc' = "raised" /\ error' = msg

\* generate_video_config(pdf_url) and response.content[0].text
ConfigRequest ==
    /\ pc = "config"
    /\ \/ /\ \E t \in Texts :
                \E cs \in (IF HasObj(t) THEN ClipLists ELSE {<<>>}) :
                    /\ config_text' = t
                    /\ embedded' = (IF HasObj(t) THEN Object(cs) ELSE NoConfig)
          /\ pc' = "parse"
          /\ error' = error
       \/ /\ Raise("config request failed")
          /\ UNCHANGED <<config_text, embedded>>
    /\ ev' = NoEv
    /\ UNCHANGED <<config, driverVars, comb, fs, stitchVars, veoVars, result>>

\* try: json.loads ... except JSONDecodeError: re.search ...
ParseConfig ==
    /\ pc = "parse"
    /\ LET r == ParseConfigText(config_text, embedded) IN
        /\ ev' = Ev(r.via, 0, None)
        /\ IF r.status = "ok"
           THEN /\ config' = r.config
                /\ pc' = "clips"
                /\ error' = error
           ELSE /\ config' = config
                /\ Raise(r.status)
    /\ UNCHANGED <<config_text, embedded, driverVars, comb, fs, stitchVars, veoVars,
                   result>>

\* clips = config.get("clips", []); if not clips: raise; clips = clips[:max_clips]
\* (the text of the response is not read again: the model forgets it)
SelectClips ==
    /\ pc = "clips"
    /\ IF GetClips(config) = <<>>
       THEN /\ Raise("No clips generated from PDF")
            /\ clips' = clips
       ELSE /\ clips' = TruncateClips(GetClips(config))
            /\ pc' = "render"
            /\ error' = error
    /\ ev' = NoEv
    /\ config_text' = <<>>
    /\ embedded' = NoConfig
    /\ UNCHANGED <<config, video_paths, i, final_clips, successful_clips,
                   failed_clips, comb, fs, stitchVars, veoVars, result>>

\* what generate_manim_clips returns for the clips it renders: a path or None
\* for each clip, in the clips' order
RenderedPaths(cs, ok) == [k \in 1..Len(cs) |-> IF k \in ok THEN VideoPath(k) ELSE None]

RECURSIVE RenderedFiles(_, _, _)
RenderedFiles(files, k, ok) ==
    IF k = 0 THEN files
    ELSE IF k \in ok
         THEN WriteFile(RenderedFiles(files, k - 1, ok), VideoPath(k), VideoPath(k))
         ELSE RenderedFiles(files, k - 1, ok)

\* video_paths = await generate_manim_clips(clips, output_dir, "medium_quality")
\* (the config is not read again: the model forgets it)
RenderClips ==
    /\ pc = "render"
    /\ \E ok \in SUBSET (1..Len(clips)) :
        /\ video_paths' = RenderedPaths(clips, ok)
        /\ fs' = RenderedFiles(fs, Len(clips), ok)
    /\ config' = NoConfig
    /\ i' = 1
    /\ pc' = "loop"
    /\ ev' = NoEv
    /\ UNCHANGED <<config_text, embedded, clips, final_clips, successful_clips,
                   failed_clips, comb, stitchVars, veoVars, result, error>>

\* zip(clips, video_paths)
ZipLen == Min(Len(clips), Len(video_paths))

\* else: failed_clips += 1
ClipFailed ==
    /\ pc = "loop" /\ i <= ZipLen
    /\ video_paths[i] = None
    /\ failed_clips' = failed_clips + 1
    /\ i' = i + 1
    /\ ev' = Ev("render_failed", i, None)
    /\ comb' = NoComb
    /\ UNCHANGED <<pc, config_text, embedded, config, clips, video_paths, final_clips,
                   successful_clips, fs, stitchVars, veoVars, result, error>>

\* if clip_config.get('voice_over'): ... else: final_clips.append(video_path)
ClipSilent ==
    /\ pc = "loop" /\ i <= ZipLen
    /\ video_paths[i] # None
    /\ ~clips[i].voice_over
    /\ final_clips' = Append(final_clips, video_paths[i])
    /\ successful_clips' = successful_clips + 1
    /\ i' = i + 1
    /\ ev' = Ev("no_text", i, video_paths[i])
    /\ comb' = NoComb
    /\ UNCHANGED <<pc, config_text, embedded, config, clips, video_paths,
                   failed_clips, fs, stitchVars, veoVars, result, error>>

\* what generate_voice can do: raise, return None, return a path with no file
\* behind it, or write the audio file and return its path
VoiceOutcomes == {"voice_raise", "voice_none", "voice_missing", "voice_ok"}

\* a driver whose try does not cover an exception of generate_voice
VoiceBranchUncaught(outcome) ==
    CASE outcome = "voice_ok" -> "combine"
      [] outcome = "voice_raise" -> "abort"
      [] OTHER -> "silent"

\* the branch taken on the outcome of generate_voice: the except clause and the
\* else of `if audio_result and os.path.exists(audio_result)` keep the silent video
VoiceBranch(outcome) == IF outcome = "voice_ok" THEN "combine" ELSE "silent"

\* audio_result = await generate_voice(clip_config['voice_over'], audio_path)
ClipVoice ==
    /\ pc = "loop" /\ i <= ZipLen
    /\ video_paths[i] # None
    /\ clips[i].voice_over
    /\ \E outcome \in VoiceOutcomes :
        /\ ev' = Ev(outcome, i, video_paths[i])
        /\ CASE VoiceBranch(outcome) = "combine" ->
                  /\ pc' = "combine"
                  /\ UNCHANGED <<final_clips, successful_clips, i, error>>
             [] VoiceBranch(outcome) = "silent" ->
                  /\ final_clips' = Append(final_clips, video_paths[i])
                  /\ successful_clips' = successful_clips + 1
                  /\ i' = i + 1
                  /\ UNCHANGED <<pc, error>>
             [] OTHER ->
                  /\ Raise("voice generation failed")
                  /\ UNCHANGED <<final_clips, successful_clips, i>>
    /\ comb' = NoComb
    /\ UNCHANGED <<config_text, embedded, config, clips, video_paths, failed_clips,
                   fs, stitchVars, veoVars, result>>

\* combined_path = combine_video_with_audio_sync(video_path, audio_path, final_path)
\* final_clips.append(combined_path)
ClipCombine ==
    /\ pc = "combine"
    /\ \E vdur \in VideoDurations, adur \in AudioDurations :
        \E fail \in FailPoints(vdur, adur) :
            LET c == Combine(video_paths[i], FinalPath(i), vdur, adur, fail) IN
                /\ comb' = c
                /\ fs' = IF fail = "none" THEN WriteFile(fs, FinalPath(i), FinalPath(i))
                         ELSE fs
                /\ final_clips' = Append(final_clips, c.result)
                /\ ev' = Ev(IF fail = "none" THEN "combined" ELSE "combine_failed",
                            i, c.result)
    /\ successful_clips' = successful_clips + 1
    /\ i' = i + 1
    /\ pc' = "loop"
    /\ UNCHANGED <<config_text, embedded, config, clips, video_paths, failed_clips,
                   stitchVars, veoVars, result, error>>

\* a driver without the test of final_clips
NothingToAssembleUnchecked(paths) == FALSE

\* if not final_clips: raise ValueError("No clips were successfully generated")
NothingToAssemble(paths) == paths = <<>>

\* the end of the loop, and the call of stitch_videos(final_clips, ...)
LoopEnd ==
    /\ pc = "loop" /\ i > ZipLen
    /\ IF NothingToAssemble(final_clips)
       THEN /\ Raise("No clips were successfully generated")
            /\ UNCHANGED <<stitch_clips, j>>
       ELSE /\ pc' = "stitch_load"
            /\ stitch_clips' = <<>>
            /\ j' = 1
            /\ error' = error
    /\ ev' = NoEv
    /\ comb' = NoComb
    /\ UNCHANGED <<config_text, embedded, config, driverVars, fs, missing, closing,
                   written, veoVars, result>>

(***************************************************************************)
(* stitch_videos(final_clips, "summary_video.mp4"), add_thank_you = True.  *)
(* A loaded clip is the file it was read from: [path, origin].             *)
(* concatenate_videoclips and write_videofile of the final clip are taken  *)
(* to succeed.                                                             *)
(***************************************************************************)

\* if os.path.exists(path): clip = VideoFileClip(path) ...; an exception of
\* VideoFileClip reaches `except Exception as e: ...; raise`
LoadBranch(exists, loadable) ==
    IF ~exists THEN "skip" ELSE IF loadable THEN "append" ELSE "raise"

\* a zero-byte file is no video
CanLoad(files, p, loadable) == loadable /\ OriginOf(files, p) # EmptyOrigin

\* one turn of `for i, path in enumerate(video_paths)`; the file may have
\* disappeared from the shared directory since it was written
StitchLoadClip ==
    /\ pc = "stitch_load" /\ j <= Len(final_clips)
    /\ \E removed \in BOOLEAN, loadable \in BOOLEAN :
        LET path == final_clips[j]
            files == IF removed THEN Remove(fs, path) ELSE fs
            branch == LoadBranch(Exists(files, path),
                                 Exists(files, path) /\ CanLoad(files, path, loadable))
        IN  /\ fs' = files
            /\ CASE branch = "skip" ->
                      /\ missing' = missing \cup {path}
                      /\ j' = j + 1
                      /\ ev' = Ev("load_skipped", j, path)
                      /\ UNCHANGED <<stitch_clips, pc, error>>
                 [] branch = "append" ->
                      /\ stitch_clips' = Append(stitch_clips, File(path, OriginOf(files, path)))
                      /\ j' = j + 1
                      /\ ev' = Ev("loaded", j, path)
                      /\ UNCHANGED <<missing, pc, error>>
                 [] OTHER ->
                      /\ Raise("clip could not be loaded")
                      /\ ev' = Ev("load_raised", j, path)
                      /\ UNCHANGED <<stitch_clips, j, missing>>
    /\ UNCHANGED <<config_text, embedded, config, driverVars, comb, closing, written,
                   veoVars, result>>

\* if not clips: raise ValueError("No valid video clips found")
StitchCheck ==
    /\ pc = "stitch_load" /\ j > Len(final_clips)
    /\ IF stitch_clips = <<>>
       THEN Raise("No valid video clips found")
       ELSE pc' = "veo_entry" /\ error' = error
    /\ ev' = NoEv
    /\ UNCHANGED <<config_text, embedded, config, driverVars, comb, fs, stitchVars,
                   veoVars, result>>

(***************************************************************************)
(* generate_veo_thank_you_clip("clips/thank_you_veo.mp4").                 *)
(* The locals of the Primary (elapsed, n) are forgotten when it returns;   *)
(* the operation handle is forgotten at the step after.                    *)
(***************************************************************************)
KeyValues == {"unset", "empty", "placeholder", "set"}

\* if google_api_key and google_api_key != "your_google_api_key_here"
Configured(key) == key \notin {"unset", "empty", "placeholder"}

\* a generator that tries the Primary again when it returned nothing
AfterPrimaryRetry(res) == IF res # None THEN "return" ELSE "primary"

\* result = generate_veo_gemini_thank_you_clip(...); if result: return result;
\* otherwise the function goes on to create_fallback_thank_you_clip
AfterPrimary(res) == IF res # None THEN "return" ELSE "fallback"

\* the ways generate_veo_gemini_thank_you_clip ends with None
PrimaryFailures ==
    {"import_error", "client_error", "api_error", "timed_out", "errored",
     "empty_result", "download_failed"}

\* generate_veo_gemini_thank_you_clip returns res, having ended `how`
EndPrimary(how, res) ==
    /\ ev' = Ev(how, 0, res)
    /\ elapsed' = 0
    /\ n' = 0
    /\ CASE AfterPrimary(res) = "return" ->
              /\ veo_clip_path' = res
              /\ pc' = "stitch_closing"
              /\ UNCHANGED <<primary_calls, fallback_calls>>
         [] AfterPrimary(res) = "fallback" ->
              /\ pc' = "fallback_temp"
              /\ fallback_calls' = fallback_calls + 1
              /\ UNCHANGED <<primary_calls, veo_clip_path>>
         [] OTHER ->
              /\ pc' = "primary_start"
              /\ primary_calls' = primary_calls + 1
              /\ UNCHANGED <<fallback_calls, veo_clip_path>>

\* google_api_key = os.getenv("GOOGLE_API_KEY") and the branch on it
VeoEntry ==
    /\ pc = "veo_entry"
    /\ \E key \in KeyValues :
        /\ api_key' = key
        /\ IF Configured(key)
           THEN /\ pc' = "primary_start"
                /\ primary_calls' = primary_calls + 1
                /\ UNCHANGED fallback_calls
           ELSE /\ pc' = "fallback_temp"
                /\ fallback_calls' = fallback_calls + 1
                /\ UNCHANGED primary_calls
    /\ ev' = NoEv
    /\ UNCHANGED <<config_text, embedded, config, driverVars, comb, fs, stitchVars,
                   api_called, operation, elapsed, n, temp_file, fallback_path,
                   veo_clip_path, result, error>>

\* the time a status call takes on top of the sleep, in seconds
Latencies == {0, 300}

\* what a status of the operation can be: not done, or done with its videos
Operations ==
    {[done |-> FALSE, videos |-> 0]} \cup
    {[done |-> TRUE, videos |-> v] : v \in 0..MaxVideos}

\* from the import of the SDK to the first test of `while not operation.done`
PrimaryStart ==
    /\ pc = "primary_start"
    /\ \/ /\ \E how \in {"import_error", "client_error"} : EndPrimary(how, None)
          /\ UNCHANGED <<api_called, operation>>
       \/ /\ EndPrimary("api_error", None)
          /\ api_called' = TRUE
          /\ UNCHANGED operation
       \/ /\ api_called' = TRUE
          /\ operation' \in Operations
          /\ elapsed' = 0
          /\ pc' = "poll_check"
          /\ ev' = Ev("started", 0, None)
          /\ UNCHANGED <<n, primary_calls, fallback_calls, veo_clip_path>>
    /\ UNCHANGED <<config_text, embedded, config, driverVars, comb, fs, stitchVars,
                   api_key, temp_file, fallback_path, result, error>>

\* a timeout check that allows one more sleep past the limit
TimedOutAfterSleep(t) == t > MaxWaitTime + PollInterval

\* if elapsed > max_wait_time
TimedOut(t) == t > MaxWaitTime

\* while not operation.done: elapsed = ...; if elapsed > max_wait_time: return None
PollCheck ==
    /\ pc = "poll_check"
    /\ IF operation.done
       THEN /\ pc' = "download"
            /\ n' = 1
            /\ elapsed' = 0
            /\ ev' = Ev("observed_done", 0, None)
            /\ UNCHANGED <<primary_calls, fallback_calls, veo_clip_path>>
       ELSE IF TimedOut(elapsed)
            THEN EndPrimary("timed_out", None)
            ELSE /\ pc' = "poll_status"
                 /\ ev' = Ev("waiting", 0, None)
                 /\ UNCHANGED <<elapsed, n, primary_calls, fallback_calls,
                                veo_clip_path>>
    /\ UNCHANGED <<config_text, embedded, config, driverVars, comb, fs, stitchVars,
                   api_key, api_called, operation, temp_file, fallback_path, result,
                   error>>

\* time.sleep(15); try: operation = client.operations.get(operation)
\* except Exception: return None
PollStatus ==
    /\ pc = "poll_status"
    /\ api_called' = TRUE
    /\ \/ /\ EndPrimary("errored", None)
          /\ UNCHANGED operation
       \/ /\ operation' \in Operations
          /\ \E lat \in Latencies : elapsed' = elapsed + PollInterval + lat
          /\ pc' = "poll_check"
          /\ ev' = Ev("polled", 0, None)
          /\ UNCHANGED <<n, primary_calls, fallback_calls, veo_clip_path>>
    /\ UNCHANGED <<config_text, embedded, config, driverVars, comb, fs, stitchVars,
                   api_key, temp_file, fallback_path, result, error>>

\* if os.path.exists(output_path) and os.path.getsize(output_path) > 0
SavedOk(files, p) == Exists(files, p) /\ OriginOf(files, p) # EmptyOrigin

\* what download-and-save of one generated video can do: save the video, save
\* an empty file, save nothing, or raise
DownloadOutcomes ==
    {"download_ok", "download_empty", "download_absent", "download_raise"}

Saved(files, outcome) ==
    CASE outcome = "download_ok" -> WriteFile(files, ThankYouPath, VeoOrigin)
      [] outcome = "download_empty" -> WriteFile(files, ThankYouPath, EmptyOrigin)
      [] OTHER -> files

\* if operation.response ... generated_videos: for n, generated_video in ...
\* one turn of the loop, or the `return None` after it
PrimaryDownload ==
    /\ pc = "download"
    /\ IF n > operation.videos
       THEN /\ EndPrimary(IF operation.videos = 0 THEN "empty_result"
                          ELSE "download_failed", None)
            /\ UNCHANGED <<fs, api_called>>
       ELSE \E outcome \in DownloadOutcomes :
            /\ api_called' = TRUE
            /\ fs' = Saved(fs, outcome)
            /\ IF outcome # "download_raise" /\ SavedOk(Saved(fs, outcome), ThankYouPath)
               THEN EndPrimary("done", ThankYouPath)
               ELSE /\ n' = n + 1
                    /\ ev' = Ev(outcome, n, None)
                    /\ UNCHANGED <<pc, elapsed, primary_calls, fallback_calls,
                                   veo_clip_path>>
    /\ UNCHANGED <<config_text, embedded, config, driverVars, comb, stitchVars,
                   api_key, operation, temp_file, fallback_path, result, error>>

(***************************************************************************)
(* create_fallback_thank_you_clip("clips/thank_you_veo.mp4").              *)
(***************************************************************************)

\* create_fallback_thank_you_clip returns res to generate_veo_thank_you_clip,
\* which returns it to stitch_videos
EndFallback(res) ==
    /\ veo_clip_path' = res
    /\ pc' = "stitch_closing"

\* with tempfile.NamedTemporaryFile(mode='w', suffix='.py', delete=False): the
\* file is created and written; or it is created and temp_file.write raises,
\* which `except Exception` answers with None, the file left where it is; or
\* the creation raises, answered the same way
FallbackTemp ==
    /\ pc = "fallback_temp"
    /\ \/ /\ temp_file' = "created"
          /\ fs' = WriteFile(fs, TempPath, TempPath)
          /\ pc' = "fallback_render"
          /\ ev' = Ev("temp_created", 0, TempPath)
          /\ UNCHANGED veo_clip_path
       \/ /\ temp_file' = "created"
          /\ fs' = WriteFile(fs, TempPath, TempPath)
          /\ EndFallback(None)
          /\ ev' = Ev("temp_write_failed", 0, TempPath)
       \/ /\ EndFallback(None)
          /\ ev' = Ev("temp_failed", 0, None)
          /\ UNCHANGED <<temp_file, fs>>
    /\ operation' = NoOperation
    /\ UNCHANGED <<config_text, embedded, config, driverVars, comb, stitchVars,
                   api_key, primary_calls, fallback_calls, api_called, elapsed, n,
                   fallback_path, result, error>>

\* what subprocess.run(cmd) can do: manim exits 0 having written its video,
\* exits 0 having written none, exits non-zero, or the call raises
RenderOutcomes == {"exit0_video", "exit0_novideo", "nonzero", "render_raise"}

\* Path(output_dir).glob("**/*.mp4") without the paths that hold "partial"
IsFinalVideo(f) ==
    f.path.kind \in {"video", "final", "thank_you", "fallback_render", "old"}

\* max(final_videos, key=os.path.getctime), None when there is none
NewestVideo(files) ==
    IF \E k \in 1..Len(files) : IsFinalVideo(files[k])
    THEN files[SetMax({k \in 1..Len(files) : IsFinalVideo(files[k])})].path
    ELSE None

\* finally: if os.path.exists(temp_file_path): os.unlink(temp_file_path)
TempCleanup(files, outcome) == Remove(files, TempPath)

\* try: subprocess.run ... finally: unlink the temporary file
FallbackRender ==
    /\ pc = "fallback_render"
    /\ \E outcome \in RenderOutcomes :
        LET rendered == IF outcome = "exit0_video"
                        THEN WriteFile(fs, FallbackRenderPath, FallbackRenderPath)
                        ELSE fs
        IN  /\ fs' = TempCleanup(rendered, outcome)
            /\ ev' = Ev(outcome, 0, None)
            /\ IF outcome = "render_raise"
               THEN /\ EndFallback(None)
                    /\ UNCHANGED fallback_path
               ELSE /\ fallback_path' = IF outcome \in {"exit0_video", "exit0_novideo"}
                                        THEN NewestVideo(rendered) ELSE None
                    /\ pc' = "fallback_move"
                    /\ UNCHANGED veo_clip_path
    /\ UNCHANGED <<config_text, embedded, config, driverVars, comb, stitchVars,
                   api_key, primary_calls, fallback_calls, api_called, operation,
                   elapsed, n, temp_file, result, error>>

\* os.rename(src, dst): dst is replaced, the file keeps its content
Rename(files, src, dst) ==
    IF src = dst THEN files
    ELSE WriteFile(Remove(files, src), dst, OriginOf(files, src))

\* if fallback_path and os.path.exists(fallback_path): os.rename(...); return
\* output_path  else: return None
FallbackMove ==
    /\ pc = "fallback_move"
    /\ IF fallback_path # None /\ Exists(fs, fallback_path)
       THEN /\ fs' = Rename(fs, fallback_path, ThankYouPath)
            /\ EndFallback(ThankYouPath)
            /\ ev' = Ev("moved", 0, fallback_path)
       ELSE /\ fs' = fs
            /\ EndFallback(None)
            /\ ev' = Ev("not_moved", 0, None)
    /\ UNCHANGED <<config_text, embedded, config, driverVars, comb, stitchVars,
                   api_key, primary_calls, fallback_calls, api_called, operation,
                   elapsed, n, temp_file, fallback_path, result, error>>

(***************************************************************************)
(* stitch_videos, from the return of generate_veo_thank_you_clip.          *)
(***************************************************************************)

\* an assembler whose closing-clip block has no try of its own
ClosingBranchUncaught(path, exists, loadable) ==
    IF path # None /\ exists
    THEN IF loadable THEN "added" ELSE "raise"
    ELSE "no_clip"

\* if veo_clip_path and os.path.exists(veo_clip_path): VideoFileClip(...) ...
\* else: continue without; except Exception: continue without
ClosingBranch(path, exists, loadable) ==
    IF path # None /\ exists
    THEN IF loadable THEN "added" ELSE "load_failed"
    ELSE "no_clip"

\* clips.append(normalized_thank_you)
AddClosing(cs, c) == Append(cs, c)

StitchClosing ==
    /\ pc = "stitch_closing"
    /\ \E removed \in BOOLEAN, loadable \in BOOLEAN :
        LET files == IF removed /\ veo_clip_path # None
                     THEN Remove(fs, veo_clip_path) ELSE fs
            exists == veo_clip_path # None /\ Exists(files, veo_clip_path)
            branch == ClosingBranch(veo_clip_path, exists,
                                    exists /\ CanLoad(files, veo_clip_path, loadable))
        IN  /\ fs' = files
            /\ ev' = Ev(branch, 0, veo_clip_path)
            /\ CASE branch = "added" ->
                      /\ stitch_clips' =
                            AddClosing(stitch_clips,
                                       File(veo_clip_path, OriginOf(files, veo_clip_path)))
                      /\ closing' = "added"
                      /\ pc' = "stitch_write"
                      /\ error' = error
                 [] branch \in {"load_failed", "no_clip"} ->
                      /\ stitch_clips' = stitch_clips
                      /\ closing' = branch
                      /\ pc' = "stitch_write"
                      /\ error' = error
                 [] OTHER ->
                      /\ stitch_clips' = stitch_clips
                      /\ closing' = branch
                      /\ Raise("closing clip could not be added")
    /\ operation' = NoOperation
    /\ UNCHANGED <<config_text, embedded, config, driverVars, comb, j, missing,
                   written, api_key, primary_calls, fallback_calls, api_called,
                   elapsed, n, temp_file, fallback_path, veo_clip_path, result>>

\* concatenate_videoclips(clips, method="chain"): the clips in list order
Concatenate(cs) == [k \in 1..Len(cs) |-> cs[k].origin]

\* a summary that counts the clips stitch_videos concatenated
SummaryOfStitched(path) ==
    [returned |-> TRUE, video_path |-> path, total_clips |-> Len(clips),
     successful_clips |-> Len(stitch_clips),
     failed_clips |-> Len(clips) - Len(stitch_clips)]

\* the dict generate_summary_video returns
Summary(path) ==
    [returned |-> TRUE, video_path |-> path, total_clips |-> Len(clips),
     successful_clips |-> successful_clips, failed_clips |-> failed_clips]

\* what concatenate_videoclips and final_clip.write_videofile can do
WriteOutcomes == {"written", "concat_raise", "write_raise"}

\* final_clip = concatenate_videoclips(clips); final_clip.write_videofile(
\* output_path); return output_path; and the driver's return of the summary;
\* or one of the two calls raises, `except Exception: ...; raise`
StitchWrite ==
    /\ pc = "stitch_write"
    /\ \E outcome \in WriteOutcomes :
        IF outcome = "written"
        THEN /\ written' = Concatenate(stitch_clips)
             /\ fs' = WriteFile(fs, SummaryPath, SummaryPath)
             /\ result' = Summary(SummaryPath)
             /\ pc' = "done"
             /\ ev' = NoEv
             /\ error' = error
        ELSE /\ Raise(IF outcome = "concat_raise" THEN "concatenate failed"
                      ELSE "final write failed")
             /\ ev' = Ev(outcome, 0, None)
             /\ UNCHANGED <<written, fs, result>>
    /\ UNCHANGED <<config_text, embedded, config, driverVars, comb, stitch_clips, j,
                   missing, closing, veoVars>>

Next ==
    \/ ConfigRequest
    \/ ParseConfig
    \/ SelectClips
    \/ RenderClips
    \/ ClipFailed
    \/ ClipSilent
    \/ ClipVoice
    \/ ClipCombine
    \/ LoopEnd
    \/ StitchLoadClip
    \/ StitchCheck
    \/ VeoEntry
    \/ PrimaryStart
    \/ PollCheck
    \/ PollStatus
    \/ PrimaryDownload
    \/ FallbackTemp
    \/ FallbackRender
    \/ FallbackMove
    \/ StitchClosing
    \/ StitchWrite

Spec == Init /\ [][Next]_vars

(***************************************************************************)
(* Properties.                                                             *)
(***************************************************************************)
Last(s) == s[Len(s)]

\* the clips the renderer produced a video for, among the first m
Survivors(m) == {k \in 1..m : video_paths[k] # None}

\* the paths in `paths` belong to the clips in `idxs`, one path per clip, in
\* the clips' order; each is the clip's rendered video or its composited file
InClipOrder(paths, idxs) ==
    /\ {paths[m].idx : m \in 1..Len(paths)} = idxs
    /\ Len(paths) = Cardinality(idxs)
    /\ \A m \in 1..Len(paths) :
          paths[m] \in {video_paths[paths[m].idx], FinalPath(paths[m].idx)}
    /\ \A a, b \in 1..Len(paths) : a < b => paths[a].idx < paths[b].idx

\* C1: the clips handed to the renderer are exactly the first min(k, 4) clips
\* of the parsed config, in the config's order, and the paths collected for
\* stitch_videos are those of the clips that rendered, one per clip, in the
\* same order (no reordering, no duplicate).
C1_FirstClipsInOrder ==
    /\ pc = "render" =>
          /\ Len(clips) = Min(Len(GetClips(config)), 4)
          /\ \A p \in 1..Len(clips) : clips[p] = GetClips(config)[p]
    /\ pc \in {"loop", "combine"} =>
          /\ Len(video_paths) = Len(clips)
          /\ InClipOrder(final_clips, Survivors(i - 1))
    /\ pc \in {"stitch_load", "veo_entry", "stitch_write", "done"} =>
          InClipOrder(final_clips, Survivors(Len(clips)))

\* a config of more than 4 clips has been truncated and is about to be rendered
C1_Witness ==
    /\ pc = "render"
    /\ Len(GetClips(config)) > 4
    /\ Len(clips) = 4

\* C2 (as claimed): the run raises only if config generation or parsing
\* failed (no clips were ever selected) or nothing is left to assemble.
C2_RaisesOnlyWithNothingToAssemble ==
    pc = "raised" =>
        \/ clips = <<>>
        \/ final_clips = <<>>
        \/ j > Len(final_clips) /\ stitch_clips = <<>>

\* the objects a response holds: the object literal, and the braces { } next
\* to each other
ObjectsIn(t, emb) ==
    (IF HasObj(t) THEN {emb} ELSE {}) \cup
    (IF \E k \in 1..(Len(t) - 1) : t[k] = "LB" /\ t[k + 1] = "RB"
     THEN {EmptyObject} ELSE {})

\* C3 (as claimed): a response that is not JSON but holds an embedded JSON
\* object is parsed to that object; one that holds none fails with "Could
\* not parse video configuration" and with no other error.
C3_RecoversEmbeddedObject ==
    (ev.kind \in {"regex", "no_match"} /\ pc \in {"clips", "raised"}) =>
        IF ObjectsIn(config_text, embedded) # {}
        THEN pc = "clips" /\ config \in ObjectsIn(config_text, embedded)
        ELSE pc = "raised" /\ error = "Could not parse video configuration"

AllRendersFailed ==
    /\ video_paths # <<>>
    /\ \A k \in 1..Len(video_paths) : video_paths[k] = None

\* C4: when the renderer returned no video for any clip, stitch_videos is
\* never entered and nothing is written, and once the loop is over the run
\* has raised "No clips were successfully generated".
C4_AllRendersFailedRaises ==
    AllRendersFailed =>
        /\ j = 0 /\ stitch_clips = <<>> /\ written = <<>>
        /\ ~Exists(fs, SummaryPath)
        /\ ~result.returned
        /\ pc \in {"loop", "raised"}
        /\ pc = "raised" => error = "No clips were successfully generated"

\* four clips, none rendered: the run has raised
C4_Witness ==
    /\ pc = "raised"
    /\ Len(video_paths) = 4
    /\ AllRendersFailed
    /\ failed_clips = 4

\* C5: a rendered clip without narration text, or whose narration raised,
\* returned nothing or returned a path with no file, puts its rendered video
\* path, as the renderer returned it, at the end of final_clips, and the run
\* goes on with the next clip.
C5_SilentClipKept ==
    ev.kind \in {"no_text", "voice_raise", "voice_none", "voice_missing"} =>
        /\ pc = "loop"
        /\ error = "none"
        /\ i = ev.clip + 1
        /\ final_clips # <<>>
        /\ Last(final_clips) = video_paths[ev.clip]
        /\ Last(final_clips) = VideoPath(ev.clip)

\* the narration of the second clip raised, after a first clip was kept
C5_Witness ==
    /\ ev.kind = "voice_raise"
    /\ ev.clip = 2
    /\ Len(final_clips) = 2

\* C6: when a call inside combine_video_with_audio_sync raises, the function
\* returns the silent video path, and that path, not the output path, is the
\* one the driver appends for the clip.
C6_CompositingFailureFallsBack ==
    (comb.called /\ comb.fail # "none") =>
        /\ comb.result = comb.video_path
        /\ comb.result # comb.output_path
        /\ ev.kind = "combine_failed"
        /\ Last(final_clips) = video_paths[ev.clip]
        /\ Last(final_clips) # FinalPath(ev.clip)
        /\ pc = "loop"

\* writing the composited file of a clip raised
C6_Witness ==
    /\ comb.called
    /\ comb.fail = "write"
    /\ Last(final_clips) = VideoPath(ev.clip)

\* create_fallback_thank_you_clip has returned (or is past its finally)
FallbackPastCleanup ==
    /\ fallback_calls > 0
    /\ pc \in {"fallback_move", "stitch_closing", "stitch_write", "done", "raised"}

\* C7: without a configured credential the generative-video API is never
\* called and the Fallback is entered at once; and whenever the Fallback
\* created its temporary source file, the file is gone when the Fallback
\* returns, whatever subprocess.run did.
C7_NoKeyFallbackAndTempDeleted ==
    /\ api_key \in {"unset", "empty", "placeholder"} =>
          /\ primary_calls = 0
          /\ ~api_called
          /\ fallback_calls = 1
    /\ (FallbackPastCleanup /\ temp_file = "created") => ~Exists(fs, TempPath)

\* C8: the Primary is called at most once; every way it fails (and a
\* missing credential) puts the generator at the entry of the Fallback, which
\* is called once; and once the Fallback has been called the Primary is not
\* called, nor any of its steps taken.
C8_PrimaryToFallbackOneWay ==
    /\ [](/\ primary_calls <= 1
          /\ fallback_calls <= 1
          /\ ev.kind \in PrimaryFailures =>
                pc = "fallback_temp" /\ fallback_calls = 1 /\ primary_calls = 1
          /\ (api_key # "unread" /\ ~Configured(api_key)) =>
                fallback_calls = 1 /\ primary_calls = 0)
    /\ [][fallback_calls > 0 =>
            /\ primary_calls' = primary_calls
            /\ pc' \notin {"primary_start", "poll_check", "poll_status", "download"}]_vars

\* the Primary timed out and the Fallback is about to run
C8_Witness ==
    /\ ev.kind = "timed_out"
    /\ pc = "fallback_temp"
    /\ primary_calls = 1
    /\ fallback_calls = 1

\* the main clips stitch_videos loaded: the paths it was handed, without
\* those it found absent
MainClips == SelectSeq(final_clips, LAMBDA p : p \notin missing)

\* C9: a failed closing-clip generation (no path returned, the path absent,
\* or its loading raised) does not stop stitch_videos: it goes on to
\* concatenate exactly the main clips, in order, and a raise after it comes
\* only from the final concatenation or write; with a closing clip, the
\* sequence is the main clips followed by the closing clip; what is written
\* is that sequence.
C9_ClosingClipLastOrOmitted ==
    /\ closing # "none" =>
          /\ closing \in {"added", "load_failed", "no_clip"}
          /\ pc \in {"stitch_write", "done", "raised"}
          /\ pc = "raised" => error \in {"concatenate failed", "final write failed"}
          /\ closing \in {"load_failed", "no_clip"} =>
                Concatenate(stitch_clips) = MainClips
          /\ closing = "added" =>
                /\ Len(stitch_clips) = Len(MainClips) + 1
                /\ SubSeq(Concatenate(stitch_clips), 1, Len(MainClips)) = MainClips
                /\ Last(stitch_clips).path = ThankYouPath
                /\ veo_clip_path = ThankYouPath
    /\ pc = "done" =>
          /\ Exists(fs, SummaryPath)
          /\ written = Concatenate(stitch_clips)
    /\ pc = "raised" => written = <<>>

\* the closing clip was returned but could not be loaded, one main clip was
\* absent, and the other main clips were written
C9_Witness ==
    /\ pc = "done"
    /\ closing = "load_failed"
    /\ missing # {}
    /\ Len(written) >= 2
    /\ written = MainClips

\* C10: a composited clip whose audio is longer than its video holds the
\* video followed by a still of exactly audio - video + 0.1 s, so it lasts at
\* least as long as the audio; otherwise the video is kept at its own length;
\* in both cases the whole audio is attached.
C10_VideoExtendedToAudio ==
    (comb.called /\ comb.fail = "none") =>
        /\ comb.audio_kept = comb.adur
        /\ comb.outdur >= comb.vdur
        /\ comb.adur > comb.vdur =>
              /\ comb.still = (comb.adur - comb.vdur) + 10
              /\ comb.outdur = comb.vdur + comb.still
              /\ comb.outdur >= comb.adur
        /\ comb.adur <= comb.vdur =>
              /\ comb.still = 0
              /\ comb.outdur = comb.vdur

\* a clip whose audio is longer than its video was composited
C10_Witness ==
    /\ comb.called
    /\ comb.fail = "none"
    /\ comb.adur > comb.vdur
    /\ Last(final_clips) = comb.output_path

\* C11: when combine_video_with_audio_sync returns, on the success path and
\* on every exception path, each media handle it opened (video, audio, the
\* still clip, the extended video, the final clip) has been closed.
C11_EveryOpenedHandleClosed ==
    comb.called => comb.opened \subseteq comb.closed

\* C12: stitch_videos skips a clip it cannot read (absent, or present but not
\* loadable) instead of aborting: while loading it raises only when no clip
\* was valid, and then writes nothing; otherwise the valid clips go on, in
\* list order.
C12_UnreadableClipSkipped ==
    /\ (pc = "raised" /\ j >= 1
          /\ error \notin {"concatenate failed", "final write failed"}) =>
          /\ stitch_clips = <<>>
          /\ written = <<>>
          /\ ~Exists(fs, SummaryPath)
    /\ pc \in {"stitch_load", "veo_entry"} =>
          [k \in 1..Len(stitch_clips) |-> stitch_clips[k].path]
             = SelectSeq(SubSeq(final_clips, 1, j - 1), LAMBDA p : p \notin missing)

\* the Primary is inside `while not operation.done`
InPoll == pc \in {"poll_check", "poll_status"}

\* C13: the polling loop of the Primary terminates: a status poll is issued
\* only while the elapsed time seen by the timeout check is within the limit,
\* every poll that returns adds at least the sleep to the elapsed time, and a
\* step is always possible inside the loop; the loop is left as done,
\* timed-out or errored; a timeout check that sees the limit passed ends the
\* Primary and no poll follows; the Primary returns a path only with the
\* operation done and a non-empty output file, and no path when it timed out
\* or the status call raised.
C13_PollingLoopTerminates ==
    /\ [](/\ pc = "poll_status" => ~operation.done /\ elapsed <= 300
          /\ InPoll => elapsed <= 300 + 15 + SetMax(Latencies)
          /\ InPoll => ENABLED (PollCheck \/ PollStatus)
          /\ ev.kind = "done" =>
                /\ operation.done
                /\ Exists(fs, ThankYouPath)
                /\ OriginOf(fs, ThankYouPath) # EmptyOrigin
                /\ veo_clip_path = ThankYouPath
          /\ ev.kind \in {"timed_out", "errored"} =>
                veo_clip_path = None /\ ~InPoll)
    /\ [][/\ (pc = "poll_status" /\ pc' = "poll_check") => elapsed' >= elapsed + 15
          /\ (InPoll /\ ~InPoll') =>
                ev'.kind \in {"observed_done", "timed_out", "errored"}
          /\ (pc = "poll_check" /\ ~operation.done /\ elapsed > 300) =>
                ev'.kind = "timed_out" /\ ~InPoll'
          /\ (~InPoll /\ pc # "primary_start") => ~InPoll']_vars

\* a status poll returned not-done after the limit had passed: the timeout
\* check is about to observe it
C13_Witness ==
    /\ pc = "poll_check"
    /\ ev.kind = "polled"
    /\ ~operation.done
    /\ elapsed > 300

\* the clips of the zip the renderer gave no video path
Unrendered == {k \in 1..ZipLen : video_paths[k] = None}

\* C14: a returned summary counts as successful exactly the paths handed to
\* stitch_videos, at least one; it counts as failed exactly the clips without
\* a rendered video path; with one renderer entry per clip the two add up to
\* total_clips; so a clip kept silent after a narration or compositing
\* failure is among the successful ones.
C14_SummaryCounts ==
    result.returned =>
        /\ result.successful_clips = Len(final_clips)
        /\ result.successful_clips >= 1
        /\ result.failed_clips = Cardinality(Unrendered)
        /\ result.total_clips = Len(clips)
        /\ Len(video_paths) = Len(clips) =>
              result.successful_clips + result.failed_clips = result.total_clips
        /\ \A k \in 1..ZipLen :
              video_paths[k] # None =>
                  \E m \in 1..Len(final_clips) :
                      final_clips[m] \in {VideoPath(k), FinalPath(k)}

\* a summary was returned for a run with a failed render and a narrated clip
\* that was handed on as its silent video
C14_Witness ==
    /\ result.returned
    /\ result.failed_clips >= 1
    /\ result.successful_clips >= 2
    /\ \E k \in 1..Len(clips) :
          /\ clips[k].voice_over
          /\ \E m \in 1..Len(final_clips) : final_clips[m] = VideoPath(k)

\* C15: when create_fallback_thank_you_clip returns a path, the file it
\* moved there is the video its own render produced: no file of a main clip
\* that stitch_videos loaded is renamed away, and the closing clip appended
\* is not the content of a main clip a second time.
C15_FallbackMovesOwnRender ==
    /\ ev.kind = "moved" =>
          /\ ev.path = FallbackRenderPath
          /\ OriginOf(fs, ThankYouPath) = FallbackRenderPath
          /\ \A m \in 1..Len(stitch_clips) : Exists(fs, stitch_clips[m].path)
    /\ closing = "added" =>
          \A m \in 1..(Len(stitch_clips) - 1) :
              stitch_clips[m].origin # Last(stitch_clips).origin

====
